---- MODULE Spec2Model ----
(***************************************************************************)
(* Model of deadrat.Bot (src/src/deadrat/__init__.py): the handler         *)
(* registry (command / on_message / event decorators), Message parsing,    *)
(* and the long-polling dispatch loop Bot.run.                             *)
(*                                                                         *)
(* Texts and triggers are sequences of one-character strings.  Timestamps  *)
(* are integers counted in units of 0.000001 s, so that the epsilon added  *)
(* by the initial sync is 1.                                               *)
(***************************************************************************)
EXTENDS Integers, Sequences, FiniteSets, TLC

VARIABLES
    pc,               \* position of the control flow inside the API call in progress
    result,           \* how the last API call ended ("running" while Bot.run is executing)
    command_handlers, \* Bot.command_handlers: trigger -> [func, wants_args]
    message_handlers, \* Bot.message_handlers: ordered list of catch-all handlers
    event_handlers,   \* Bot.event_handlers: lifecycle slot -> handler or None
    reglog,           \* registration calls made so far, in order
    last_ts,          \* Bot.last_ts, the cursor
    resp,             \* outcome of the most recent LISTENING fetch
    batch,            \* `messages`: payloads of the most recent successful poll
    idx,              \* position in `batch` of the message being processed
    hidx,             \* position in message_handlers of the catch-all handler to call next
    calls,            \* handler invocations made since the most recent fetch, in order
    fired,            \* lifecycle slot -> number of invocations by Bot._trigger in this run
    delivered,        \* ids of the messages handed to a handler so far in this run
    conforming,       \* every 200 poll so far listed ascending timestamps, all > after_ts
    raised,           \* positions in `batch` of the messages for which a handler raised
    polls,            \* number of LISTENING fetches issued
    interrupts,       \* number of KeyboardInterrupts delivered
    sync_resp,        \* the sync fetch and its answer, until the first poll rebinds `resp`
    backlog,          \* the ids SYNCING fetched and the cursor it set, while every
                      \* answer listed only items after `after`
    after_ts,         \* after_ts of the most recent fetch, until its batch is iterated
    backoff,          \* seconds of the time.sleep in progress (0: not sleeping)
    ptext,            \* the "text" of a raw payload given to Message(...)
    parsed,           \* the Message built from it, or None
    sent,             \* a SentMessage: [id, timestamp, text], or None
    initial_text,     \* the initial_text it was constructed with
    edit_log          \* the calls of SentMessage.edit made so far, in order

vars == <<pc, result, command_handlers, message_handlers, event_handlers, reglog,
          last_ts, resp, batch, idx, hidx, calls, fired, delivered,
          conforming, raised, polls, interrupts, sync_resp, backlog, after_ts,
          backoff, ptext, parsed, sent, initial_text, edit_log>>

registry == <<command_handlers, message_handlers, event_handlers>>
loopvars == <<last_ts, resp, batch, idx, hidx, calls, fired, delivered,
              conforming, raised, polls, interrupts, sync_resp, backlog, after_ts,
              backoff>>
objvars == <<ptext, parsed, sent, initial_text, edit_log>>

(***************************************************************************)
(* Bounds of the model.                                                    *)
(***************************************************************************)
MaxPolls == 2
MaxBatch == 3
MaxInterrupts == 2
MaxRegs == 3
MaxLen == 3
MaxEdits == 3

(***************************************************************************)
(* Values.                                                                 *)
(***************************************************************************)
None == "None"
NoTs == -1            \* payload without a "timestamp" key
Epsilon == 1          \* 0.000001 s
ServerErrorSleep == 2      \* time.sleep(2) after a status other than 200 and 403
ConnectionErrorSleep == 5  \* time.sleep(5) after a ConnectionError
LoopErrorSleep == 1        \* time.sleep(1) after any other Exception in the loop body

EventNames == {"startup", "shutdown", "connection_error", "error"}
AllNames == EventNames \cup {"unknown"}

Cmd == <<"/", "c">>
CmdUpper == <<"/", "C">>
Triggers == {Cmd, CmdUpper}
Funcs == {"f1", "f2"}

\* "text": null in a payload (the key is present, its value is not a string).
NullText == <<"null">>

\* Raw update payloads the server may return; a response lists each at most once.
Payloads ==
    { [id |-> 1, timestamp |-> 10, text |-> <<"/", "c", " ", "a">>],
      [id |-> 2, timestamp |-> 20, text |-> <<"h", "i">>],
      [id |-> 3, timestamp |-> 30, text |-> <<" ", "/", "C">>],
      [id |-> 4, timestamp |-> NoTs, text |-> <<"h", "i">>],
      [id |-> 5, timestamp |-> 15, text |-> NullText] }

\* No sync fetch has been made, or its answer is no longer held.
NoSync == [status |-> "none", body |-> <<>>, now |-> 0]

\* SYNCING has not run, or some answer listed an item not after `after`.
NoBacklog == [ids |-> {}, cursor |-> NoTs]

\* Values time.time() may return.
Clock == {5, 25}

\* The sequences of at most n distinct elements of S.
RECURSIVE SeqsUpTo(_, _)
SeqsUpTo(S, n) ==
    IF n = 0 THEN {<<>>}
    ELSE LET shorter == SeqsUpTo(S, n - 1)
             longest == {t \in shorter : Len(t) = n - 1}
         IN  shorter \cup
             UNION {{Append(s, x) : x \in S \ {s[i] : i \in 1..Len(s)}} : s \in longest}

\* The payload with a null text.
Unparsable == {d \in Payloads : d.text = NullText}

\* The bodies of a status 200 answer: the payloads with a string text in any
\* order, the one with a null text in answers ordered by timestamp.
Batches ==
    SeqsUpTo(Payloads \ Unparsable, MaxBatch) \cup
    {b \in SeqsUpTo({d \in Payloads : d.timestamp # NoTs}, MaxBatch) :
        /\ \E i \in 1..Len(b) : b[i] \in Unparsable
        /\ \A i, j \in 1..Len(b) : i < j => b[i].timestamp < b[j].timestamp}

(***************************************************************************)
(* Message.__init__: parsing of a raw payload.                             *)
(***************************************************************************)
IsSpace(c) == c \in {" ", "\t", "\n"}

LowerChar(c) ==
    CASE c = "C" -> "c"
      [] c = "A" -> "a"
      [] c = "H" -> "h"
      [] c = "I" -> "i"
      [] OTHER   -> c

Lower(s) == [i \in 1..Len(s) |-> LowerChar(s[i])]

RECURSIVE LStrip(_)
LStrip(s) ==
    IF s = <<>> THEN s
    ELSE IF IsSpace(Head(s)) THEN LStrip(Tail(s)) ELSE s

RECURSIVE RStrip(_)
RStrip(s) ==
    IF s = <<>> THEN s
    ELSE IF IsSpace(s[Len(s)]) THEN RStrip(SubSeq(s, 1, Len(s) - 1)) ELSE s

Strip(s) == RStrip(LStrip(s))

\* str.split(" ", 1): at most one split, at the first space character.
SplitOnce(s) ==
    IF \E i \in 1..Len(s) : s[i] = " "
    THEN LET i == CHOOSE k \in 1..Len(s) :
                      s[k] = " " /\ \A j \in 1..(k - 1) : s[j] # " "
         IN  <<SubSeq(s, 1, i - 1), SubSeq(s, i + 1, Len(s))>>
    ELSE <<s>>

\* str.split(): split on runs of whitespace, no empty tokens.
RECURSIVE SplitWS(_)
SplitWS(s) ==
    LET t == LStrip(s)
    IN  IF t = <<>> THEN <<>>
        ELSE LET n == IF \E i \in 1..Len(t) : IsSpace(t[i])
                      THEN CHOOSE k \in 1..Len(t) :
                               IsSpace(t[k]) /\ \A j \in 1..(k - 1) : ~IsSpace(t[j])
                      ELSE Len(t) + 1
             IN  <<SubSeq(t, 1, n - 1)>> \o SplitWS(SubSeq(t, n, Len(t)))

\* data.get("text", "").strip() raises AttributeError for a null text: no
\* Message object comes to exist.
ParseFails(data) == data.text = NullText

\* The Message built from a payload whose text is a string.
Message(data) ==
    LET text  == Strip(data.text)
        parts == SplitOnce(text)
    IN  [id        |-> data.id,
         text      |-> text,
         timestamp |-> data.timestamp,
         command   |-> Lower(parts[1]),
         args      |-> IF Len(parts) > 1 THEN SplitWS(parts[2]) ELSE <<>>]

(***************************************************************************)
(* Bot.__init__ and the registration decorators.                           *)
(***************************************************************************)
NoCommands == [t \in {} |-> None]
NoSlots == [n \in EventNames |-> None]
ParamCounts == {1, 2, 3}


\* Variant: a trigger that is already registered keeps its entry.
CommandRegKeepFirst(ch, trigger, func, nparams) ==
    [t \in (DOMAIN ch) \cup {trigger} |->
        IF t \in DOMAIN ch THEN ch[t] ELSE [func |-> func, wants_args |-> (nparams = 2)]]

\* Variant: the declared parameters are not inspected.
CommandRegNoShape(ch, trigger, func, nparams) ==
    [t \in (DOMAIN ch) \cup {trigger} |->
        IF t = trigger THEN [func |-> func, wants_args |-> FALSE] ELSE ch[t]]

\* Bot.command(trigger)(func), func declaring nparams parameters.
CommandReg(ch, trigger, func, nparams) ==
    [t \in (DOMAIN ch) \cup {trigger} |->
        IF t = trigger THEN [func |-> func, wants_args |-> (nparams = 2)] ELSE ch[t]]

\* Bot.on_message()(func).
OnMessageReg(mh, func) == Append(mh, func)


\* Variant: the slot is assigned without the membership test.
EventRegUnchecked(eh, event_name, func) ==
    [n \in (DOMAIN eh) \cup {event_name} |-> IF n = event_name THEN func ELSE eh[n]]

\* Bot.event(event_name)(func).
EventReg(eh, event_name, func) ==
    IF event_name \in DOMAIN eh THEN [eh EXCEPT ![event_name] = func] ELSE eh

CommandCall(trigger, func, nparams) ==
    [op |-> "command", name |-> trigger, func |-> func, nparams |-> nparams]
OnMessageCall(func) ==
    [op |-> "on_message", name |-> <<>>, func |-> func, nparams |-> 1]
EventCall(event_name, func) ==
    [op |-> "event", name |-> event_name, func |-> func, nparams |-> 0]

\* The registry after the registration calls of `script`, made on a new Bot.
RECURSIVE ApplyScript(_)
ApplyScript(script) ==
    IF script = <<>>
    THEN [ch |-> NoCommands, mh |-> <<>>, eh |-> NoSlots]
    ELSE LET r == ApplyScript(SubSeq(script, 1, Len(script) - 1))
             c == script[Len(script)]
         IN  CASE c.op = "command" ->
                    [r EXCEPT !.ch = CommandReg(r.ch, c.name, c.func, c.nparams)]
               [] c.op = "on_message" ->
                    [r EXCEPT !.mh = OnMessageReg(r.mh, c.func)]
               [] c.op = "event" ->
                    [r EXCEPT !.eh = EventReg(r.eh, c.name, c.func)]

RegCommand(trigger, func, nparams) ==
    /\ pc = "setup"
    /\ Len(reglog) < MaxRegs
    /\ command_handlers' = CommandReg(command_handlers, trigger, func, nparams)
    /\ reglog' = Append(reglog, CommandCall(trigger, func, nparams))
    /\ result' = "returned"
    /\ UNCHANGED <<pc, message_handlers, event_handlers, loopvars, objvars>>

RegOnMessage(func) ==
    /\ pc = "setup"
    /\ Len(reglog) < MaxRegs
    /\ message_handlers' = OnMessageReg(message_handlers, func)
    /\ reglog' = Append(reglog, OnMessageCall(func))
    /\ result' = "returned"
    /\ UNCHANGED <<pc, command_handlers, event_handlers, loopvars, objvars>>

RegEvent(event_name, func) ==
    /\ pc = "setup"
    /\ Len(reglog) < MaxRegs
    /\ event_handlers' = EventReg(event_handlers, event_name, func)
    /\ reglog' = Append(reglog, EventCall(event_name, func))
    /\ result' = "returned"
    /\ UNCHANGED <<pc, command_handlers, message_handlers, loopvars, objvars>>

\* State of a Bot right after construction, with the given registry.
BotState(r, script, start) ==
    /\ pc = start
    /\ result = IF start = "sync" THEN "running" ELSE "none"
    /\ command_handlers = r.ch
    /\ message_handlers = r.mh
    /\ event_handlers = r.eh
    /\ reglog = script
    /\ last_ts = 0
    /\ resp = "none"
    /\ batch = <<>>
    /\ idx = 0
    /\ hidx = 0
    /\ calls = <<>>
    /\ fired = [n \in EventNames |-> 0]
    /\ delivered = {}
    /\ conforming = TRUE
    /\ raised = {}
    /\ polls = 0
    /\ interrupts = 0
    /\ sync_resp = NoSync
    /\ backlog = NoBacklog
    /\ after_ts = NoTs
    /\ backoff = 0

\* No Message and no SentMessage has been constructed.
NoObjects ==
    /\ ptext = <<>>
    /\ parsed = None
    /\ sent = None
    /\ initial_text = <<>>
    /\ edit_log = <<>>

InitReg == BotState(ApplyScript(<<>>), <<>>, "setup") /\ NoObjects

NextReg ==
    \/ \E t \in Triggers, f \in Funcs, n \in ParamCounts : RegCommand(t, f, n)
    \/ \E f \in Funcs : RegOnMessage(f)
    \/ \E e \in AllNames, f \in Funcs : RegEvent(e, f)

SpecReg == InitReg /\ [][NextReg]_vars

(***************************************************************************)
(* Message(data, bot) applied to payloads with an arbitrary short text.    *)
(***************************************************************************)
TextChars == {"/", "c", "C", " ", "\t"}
Texts == UNION {[1..n -> TextChars] : n \in 0..MaxLen}

InitParse ==
    /\ BotState(ApplyScript(<<>>), <<>>, "parse")
    /\ ptext \in Texts
    /\ parsed = None
    /\ sent = None
    /\ initial_text = <<>>
    /\ edit_log = <<>>

\* msg = Message(data, bot)
NewMessage ==
    /\ pc = "parse"
    /\ parsed' = Message([id |-> 1, timestamp |-> 10, text |-> ptext])
    /\ pc' = "parsed"
    /\ result' = "returned"
    /\ UNCHANGED <<registry, reglog, loopvars, ptext, sent, initial_text, edit_log>>

NextParse == NewMessage

SpecParse == InitParse /\ [][NextParse]_vars

(***************************************************************************)
(* SentMessage: construction and edit, with Bot.edit_message.              *)
(***************************************************************************)
SentIds == {None, "", "msg_100"}     \* data.get("id"): missing, empty, present
SentTimestamps == {NoTs, 10}         \* data.get("timestamp"): missing, present
EditTexts == {<<>>, <<"h", "i">>, <<"/", "c">>}
PutOutcomes == {"200", "500", "Exception"}

\* SentMessage(data, bot, initial_text)
SentMessage(data, text) ==
    [id |-> data.id, timestamp |-> data.timestamp, text |-> text]

\* `if not msg_id`
NoId(target) == target.id \in {None, ""}


\* Variant: any answer of the server counts as success.
EditMessageAnyStatus(target, outcome) ==
    IF NoId(target) THEN FALSE ELSE outcome # "Exception"

\* Bot.edit_message(target, new_text), the PUT request ending with `outcome`.
EditMessage(target, outcome) ==
    IF NoId(target) THEN FALSE ELSE outcome = "200"

InitSent ==
    /\ BotState(ApplyScript(<<>>), <<>>, "sent")
    /\ ptext = <<>>
    /\ parsed = None
    /\ \E id \in SentIds, ts \in SentTimestamps, text \in EditTexts :
           /\ sent = SentMessage([id |-> id, timestamp |-> ts], text)
           /\ initial_text = text
    /\ edit_log = <<>>

\* sent.edit(new_text); put is how the request ended ("none": not sent)
Edit(new_text, outcome) ==
    /\ pc = "sent"
    /\ Len(edit_log) < MaxEdits
    /\ LET ok == EditMessage(sent, outcome)
       IN  /\ sent' = IF ok THEN [sent EXCEPT !.text = new_text] ELSE sent
           /\ edit_log' = Append(edit_log,
                  [new_text |-> new_text,
                   put      |-> IF NoId(sent) THEN "none" ELSE outcome,
                   ret      |-> ok])
    /\ result' = "returned"
    /\ UNCHANGED <<pc, registry, reglog, loopvars, ptext, parsed, initial_text>>

NextSent == \E new_text \in EditTexts, outcome \in PutOutcomes : Edit(new_text, outcome)

SpecSent == InitSent /\ [][NextSent]_vars

(***************************************************************************)
(* Bot._trigger and the helpers of the dispatch loop.                      *)
(***************************************************************************)
\* Entry of `calls`: one invocation of a handler.  pos is the position in
\* the batch of the message it was invoked for (0: none), args the
\* arguments passed, with a message represented by its id.
Call(kind, name, func, pos, args) ==
    [kind |-> kind, name |-> name, func |-> func, pos |-> pos, args |-> args]


\* Variant: an Exception raised by the handler is reported to the `error`
\* handler.
TriggerCallsReporting(c, event_name, pos, args, raises) ==
    IF event_handlers[event_name] # None
    THEN LET c1 == Append(c, [kind |-> "event", name |-> event_name,
                              func |-> event_handlers[event_name], pos |-> pos,
                              args |-> args, raises |-> raises])
         IN  IF raises /\ event_handlers["error"] # None
             THEN Append(c1, [kind |-> "event", name |-> "error",
                              func |-> event_handlers["error"], pos |-> 0,
                              args |-> <<"e">>, raises |-> FALSE])
             ELSE c1
    ELSE c

\* Bot._trigger(event_name, *args): the slot's handler, if any, is invoked;
\* an Exception it raises (raises = TRUE) is logged and goes no further.
TriggerCalls(c, event_name, pos, args, raises) ==
    IF event_handlers[event_name] # None
    THEN Append(c, [kind |-> "event", name |-> event_name,
                    func |-> event_handlers[event_name], pos |-> pos, args |-> args,
                    raises |-> raises])
    ELSE c

TriggerFired(f, event_name) ==
    IF event_handlers[event_name] # None
    THEN [f EXCEPT ![event_name] = @ + 1]
    ELSE f

\* The wire contract of GET updates: ascending timestamps, all after `after`.
Conforms(b, after) ==
    /\ \A i \in 1..Len(b) : b[i].timestamp # NoTs /\ b[i].timestamp > after
    /\ \A i, j \in 1..Len(b) : i < j => b[i].timestamp < b[j].timestamp

\* The message being processed.
msg == Message(batch[idx])


\* Variant: the lookup uses the whole text of the message as the key.
HasCommandByText == msg.text \in DOMAIN command_handlers

\* handler_data = self.command_handlers.get(msg.command)
HasCommand == msg.command \in DOMAIN command_handlers

(***************************************************************************)
(* Bot.run: SYNCING.                                                       *)
(***************************************************************************)
\* Every item of the answer b has a timestamp after `after`.
OnlyAfter(b, after) ==
    \A i \in 1..Len(b) : b[i].timestamp # NoTs /\ b[i].timestamp > after

\* The record of a sync fetch that answered b, in any order, and left the
\* cursor at c.  The `after` of the sync fetch is 0.
Fetched(b, c) ==
    IF OnlyAfter(b, 0)
    THEN [ids |-> {b[i].id : i \in 1..Len(b)}, cursor |-> c]
    ELSE NoBacklog

\* The record once a poll asked with `after` has answered b, in any order.
Polled(bl, b, after) ==
    IF OnlyAfter(b, after) THEN bl ELSE NoBacklog

\* Variant: the cursor is set to the last timestamp itself.
SyncOkNoEpsilon(b, now) ==
    /\ pc = "sync"
    /\ last_ts' = IF b # <<>> /\ b[Len(b)].timestamp # NoTs
                  THEN b[Len(b)].timestamp
                  ELSE now
    /\ sync_resp' = [status |-> "200", body |-> b, now |-> now]
    /\ backlog' = Fetched(b, last_ts')
    /\ after_ts' = 0
    /\ pc' = "startup"
    /\ UNCHANGED <<result, registry, reglog, objvars, backoff, resp, batch, idx, hidx,
                   calls, fired, delivered, conforming, polls, interrupts,
                   raised>>

\* The sync fetch answers 200 with the list b; now is time.time().
SyncOk(b, now) ==
    /\ pc = "sync"
    /\ last_ts' = IF b # <<>> /\ b[Len(b)].timestamp # NoTs
                  THEN b[Len(b)].timestamp + Epsilon
                  ELSE now
    /\ sync_resp' = [status |-> "200", body |-> b, now |-> now]
    /\ backlog' = Fetched(b, last_ts')
    /\ after_ts' = 0
    /\ pc' = "startup"
    /\ UNCHANGED <<result, registry, reglog, objvars, backoff, resp, batch, idx, hidx,
                   calls, fired, delivered, conforming, polls, interrupts,
                   raised>>

\* The sync fetch answers another status, or raises an Exception.
SyncFail(now) ==
    /\ pc = "sync"
    /\ last_ts' = now
    /\ \E kind \in {"403", "500", "Exception"} :
           sync_resp' = [status |-> kind, body |-> <<>>, now |-> now]
    /\ backlog' = Fetched(<<>>, now)
    /\ after_ts' = 0
    /\ pc' = "startup"
    /\ UNCHANGED <<result, registry, reglog, objvars, backoff, resp, batch, idx, hidx,
                   calls, fired, delivered, conforming, polls, interrupts,
                   raised>>


\* Variant: the startup handler is called directly, not through _trigger.
StartupUnguarded ==
    /\ pc = "startup"
    /\ \E raises \in BOOLEAN :
           /\ calls' = TriggerCalls(calls, "startup", 0, <<>>, raises)
           /\ IF raises /\ event_handlers["startup"] # None
              THEN pc' = "done" /\ result' = "Exception"
              ELSE pc' = "fetch" /\ result' = result
    /\ fired' = TriggerFired(fired, "startup")
    /\ UNCHANGED <<registry, reglog, objvars, sync_resp, backlog, after_ts, backoff, last_ts,
                   resp, batch, idx, hidx, delivered, conforming, polls,
                   interrupts, raised>>

\* self._trigger("startup")
Startup ==
    /\ pc = "startup"
    /\ \E raises \in BOOLEAN : calls' = TriggerCalls(calls, "startup", 0, <<>>, raises)
    /\ fired' = TriggerFired(fired, "startup")
    /\ pc' = "fetch"
    /\ UNCHANGED <<result, registry, reglog, objvars, sync_resp, backlog, after_ts, backoff,
                   last_ts, resp, batch, idx, hidx, delivered, conforming,
                   polls, interrupts, raised>>

(***************************************************************************)
(* Bot.run: LISTENING, the fetch and its outcomes.                         *)
(***************************************************************************)
Fetch(kind) ==
    /\ pc = "fetch"
    /\ polls < MaxPolls
    /\ polls' = polls + 1
    /\ resp' = kind
    /\ after_ts' = last_ts
    /\ sync_resp' = NoSync
    /\ raised' = {}
    /\ UNCHANGED <<registry, reglog, objvars, last_ts, delivered>>

\* status 200 with the list b
PollOk(b) ==
    /\ Fetch("200")
    /\ backlog' = Polled(backlog, b, last_ts)
    /\ batch' = b
    /\ idx' = 1
    /\ hidx' = 0
    /\ calls' = <<>>
    /\ conforming' = (conforming /\ Conforms(b, last_ts))
    /\ pc' = IF b = <<>> THEN "fetch" ELSE "advance"
    /\ UNCHANGED <<result, fired, backoff, interrupts>>


\* Variant: status 403 is handled like any other error status.
Poll403Retry ==
    /\ Fetch("403")
    /\ UNCHANGED <<backlog, interrupts>>
    /\ batch' = <<>>
    /\ idx' = 0
    /\ hidx' = 0
    /\ calls' = <<>>
    /\ backoff' = ServerErrorSleep
    /\ pc' = "sleep"
    /\ UNCHANGED <<result, fired, conforming>>

\* status 403: break
Poll403 ==
    /\ Fetch("403")
    /\ UNCHANGED <<backlog, interrupts>>
    /\ batch' = <<>>
    /\ idx' = 0
    /\ hidx' = 0
    /\ calls' = <<>>
    /\ pc' = "done"
    /\ result' = "returned"
    /\ UNCHANGED <<fired, conforming, backoff>>

\* any other status: time.sleep(2)
PollServerError ==
    /\ Fetch("500")
    /\ UNCHANGED <<backlog, interrupts>>
    /\ batch' = <<>>
    /\ idx' = 0
    /\ hidx' = 0
    /\ calls' = <<>>
    /\ backoff' = ServerErrorSleep
    /\ pc' = "sleep"
    /\ UNCHANGED <<result, fired, conforming>>


\* Variant: ReadTimeout has no except clause of its own.
PollTimeoutUncaught ==
    /\ Fetch("ReadTimeout")
    /\ UNCHANGED <<backlog, interrupts>>
    /\ batch' = <<>>
    /\ idx' = 0
    /\ hidx' = 0
    /\ \E raises \in BOOLEAN : calls' = TriggerCalls(<<>>, "error", 0, <<"e">>, raises)
    /\ backoff' = LoopErrorSleep
    /\ fired' = TriggerFired(fired, "error")
    /\ pc' = "sleep"
    /\ UNCHANGED <<result, conforming>>

\* requests.exceptions.ReadTimeout: continue, with no interrupt pending at
\* the jump (that case is InterruptInPoll("ReadTimeout", FALSE))
PollTimeout ==
    /\ Fetch("ReadTimeout")
    /\ UNCHANGED <<backlog, interrupts>>
    /\ batch' = <<>>
    /\ idx' = 0
    /\ hidx' = 0
    /\ calls' = <<>>
    /\ pc' = "fetch"
    /\ UNCHANGED <<result, fired, conforming, backoff>>


\* Variant: ConnectionError has no except clause of its own.
PollConnectionErrorUncaught ==
    /\ Fetch("ConnectionError")
    /\ UNCHANGED <<backlog, interrupts>>
    /\ batch' = <<>>
    /\ idx' = 0
    /\ hidx' = 0
    /\ \E raises \in BOOLEAN : calls' = TriggerCalls(<<>>, "error", 0, <<"e">>, raises)
    /\ backoff' = LoopErrorSleep
    /\ fired' = TriggerFired(fired, "error")
    /\ pc' = "sleep"
    /\ UNCHANGED <<result, conforming>>

\* requests.exceptions.ConnectionError: connection_error event, time.sleep(5)
PollConnectionError ==
    /\ Fetch("ConnectionError")
    /\ UNCHANGED <<backlog, interrupts>>
    /\ batch' = <<>>
    /\ idx' = 0
    /\ hidx' = 0
    /\ \E raises \in BOOLEAN :
           calls' = TriggerCalls(<<>>, "connection_error", 0, <<>>, raises)
    /\ backoff' = ConnectionErrorSleep
    /\ fired' = TriggerFired(fired, "connection_error")
    /\ pc' = "sleep"
    /\ UNCHANGED <<result, conforming>>

\* status 200 whose body resp.json() cannot decode: error event, time.sleep(1)
PollBadBody ==
    /\ Fetch("BadBody")
    /\ UNCHANGED <<backlog, interrupts>>
    /\ batch' = <<>>
    /\ idx' = 0
    /\ hidx' = 0
    /\ \E raises \in BOOLEAN : calls' = TriggerCalls(<<>>, "error", 0, <<"e">>, raises)
    /\ backoff' = LoopErrorSleep
    /\ fired' = TriggerFired(fired, "error")
    /\ pc' = "sleep"
    /\ UNCHANGED <<result, conforming>>

\* the backoff sleep is over
WakeUp ==
    /\ pc = "sleep"
    /\ backoff' = 0
    /\ pc' = "fetch"
    /\ UNCHANGED <<result, registry, reglog, objvars, last_ts, resp, batch, idx, hidx,
                   calls, fired, delivered, conforming, raised, polls,
                   interrupts, sync_resp, backlog, after_ts>>

(***************************************************************************)
(* Bot.run: LISTENING, the processing of one batch.                        *)
(***************************************************************************)

\* Variant: a new fetch is issued after every message.
FinishMessageRefetch ==
    /\ idx' = idx + 1
    /\ hidx' = 0
    /\ pc' = "fetch"

\* The for loop moves on to the next payload, or the batch is finished.
FinishMessage ==
    /\ idx' = idx + 1
    /\ hidx' = 0
    /\ pc' = IF idx = Len(batch) THEN "fetch" ELSE "advance"


\* self.last_ts = msg_data["timestamp"]; msg = Message(msg_data, self)
AdvanceCursor ==
    /\ pc = "advance"
    /\ after_ts' = NoTs
    /\ batch[idx].timestamp # NoTs
    /\ ~ParseFails(batch[idx])
    /\ last_ts' = batch[idx].timestamp
    /\ hidx' = 1
    /\ pc' = "route"
    /\ UNCHANGED <<result, registry, reglog, objvars, sync_resp, backlog, backoff, resp, batch,
                   idx, calls, fired, delivered, conforming, polls,
                   interrupts, raised>>


\* msg_data["timestamp"] raises KeyError: `except Exception` of the loop body
AdvanceKeyError ==
    /\ pc = "advance"
    /\ after_ts' = NoTs
    /\ batch[idx].timestamp = NoTs
    /\ \E raises \in BOOLEAN : calls' = TriggerCalls(calls, "error", 0, <<"e">>, raises)
    /\ backoff' = LoopErrorSleep
    /\ fired' = TriggerFired(fired, "error")
    /\ pc' = "sleep"
    /\ UNCHANGED <<result, registry, reglog, objvars, sync_resp, backlog, last_ts, resp, batch,
                   idx, hidx, delivered, conforming, polls, interrupts,
                   raised>>

\* self.last_ts = msg_data["timestamp"], then Message(msg_data, self) raises
\* AttributeError: `except Exception` of the loop body
AdvanceParseError ==
    /\ pc = "advance"
    /\ after_ts' = NoTs
    /\ batch[idx].timestamp # NoTs
    /\ ParseFails(batch[idx])
    /\ last_ts' = batch[idx].timestamp
    /\ \E raises \in BOOLEAN : calls' = TriggerCalls(calls, "error", 0, <<"e">>, raises)
    /\ backoff' = LoopErrorSleep
    /\ fired' = TriggerFired(fired, "error")
    /\ pc' = "sleep"
    /\ UNCHANGED <<result, registry, reglog, objvars, sync_resp, backlog, resp, batch, idx, hidx,
                   delivered, conforming, polls, interrupts, raised>>

\* The message is handed to its first handler.
Deliver ==
    /\ delivered' = delivered \cup {msg.id}


\* Variant: the trigger is looked up without regard to letter case.
CallCommandAnyCase ==
    /\ pc = "route"
    /\ \E t \in DOMAIN command_handlers :
           /\ Lower(t) = msg.command
           /\ LET hd == command_handlers[t]
              IN  calls' = Append(calls,
                       Call("command", t, hd.func, idx,
                            IF hd.wants_args THEN <<msg.id, msg.args>> ELSE <<msg.id>>))
    /\ Deliver
    /\ pc' = "in_cmd"
    /\ UNCHANGED <<result, registry, reglog, objvars, sync_resp, backlog, after_ts, backoff,
                   last_ts, resp, batch, idx, hidx, fired, conforming, polls,
                   interrupts, raised>>

\* func(msg, msg.args) or func(msg) is entered
CallCommand ==
    /\ pc = "route"
    /\ HasCommand
    /\ LET hd == command_handlers[msg.command]
       IN  calls' = Append(calls,
                Call("command", msg.command, hd.func, idx,
                     IF hd.wants_args THEN <<msg.id, msg.args>> ELSE <<msg.id>>))
    /\ Deliver
    /\ pc' = "in_cmd"
    /\ UNCHANGED <<result, registry, reglog, objvars, sync_resp, backlog, after_ts, backoff,
                   last_ts, resp, batch, idx, hidx, fired, conforming, polls,
                   interrupts, raised>>

\* the command handler returns
ReturnCommand ==
    /\ pc = "in_cmd"
    /\ FinishMessage
    /\ UNCHANGED <<result, registry, reglog, objvars, sync_resp, backlog, after_ts, backoff,
                   last_ts, resp, batch, calls, fired, delivered,
                   conforming, polls, interrupts, raised>>


\* Variant: the command handler is called without a try block of its own.
RaiseCommandUnisolated ==
    /\ pc = "in_cmd"
    /\ \E raises \in BOOLEAN : calls' = TriggerCalls(calls, "error", 0, <<"e">>, raises)
    /\ backoff' = LoopErrorSleep
    /\ raised' = raised \cup {idx}
    /\ fired' = TriggerFired(fired, "error")
    /\ pc' = "sleep"
    /\ UNCHANGED <<result, registry, reglog, objvars, sync_resp, backlog, after_ts, last_ts,
                   resp, batch, idx, hidx, delivered, conforming, polls,
                   interrupts>>

\* the command handler raises an Exception: self._trigger("error", e, msg)
RaiseCommand ==
    /\ pc = "in_cmd"
    /\ \E raises \in BOOLEAN :
           calls' = TriggerCalls(calls, "error", idx, <<"e", msg.id>>, raises)
    /\ raised' = raised \cup {idx}
    /\ fired' = TriggerFired(fired, "error")
    /\ FinishMessage
    /\ UNCHANGED <<result, registry, reglog, objvars, sync_resp, backlog, after_ts, backoff,
                   last_ts, resp, batch, delivered, conforming, polls,
                   interrupts>>

\* Variant: the catch-all handlers are not reserved for messages without a
\* registered command.
CallCatchAllAlways ==
    /\ pc = "route"
    /\ hidx <= Len(message_handlers)
    /\ calls' = Append(calls, Call("message", <<>>, message_handlers[hidx], idx,
                   <<msg.id>>))
    /\ IF hidx = 1 THEN Deliver ELSE UNCHANGED <<delivered>>
    /\ pc' = "in_msg"
    /\ UNCHANGED <<result, registry, reglog, objvars, sync_resp, backlog, after_ts, backoff,
                   last_ts, resp, batch, idx, hidx, fired, conforming, polls,
                   interrupts, raised>>

\* handler(msg) is entered for the next handler of self.message_handlers
CallCatchAll ==
    /\ pc = "route"
    /\ ~HasCommand
    /\ hidx <= Len(message_handlers)
    /\ calls' = Append(calls, Call("message", <<>>, message_handlers[hidx], idx,
                   <<msg.id>>))
    /\ IF hidx = 1 THEN Deliver ELSE UNCHANGED <<delivered>>
    /\ pc' = "in_msg"
    /\ UNCHANGED <<result, registry, reglog, objvars, sync_resp, backlog, after_ts, backoff,
                   last_ts, resp, batch, idx, hidx, fired, conforming, polls,
                   interrupts, raised>>

\* the catch-all handler returns
ReturnCatchAll ==
    /\ pc = "in_msg"
    /\ hidx' = hidx + 1
    /\ pc' = "route"
    /\ UNCHANGED <<result, registry, reglog, objvars, sync_resp, backlog, after_ts, backoff,
                   last_ts, resp, batch, idx, calls, fired, delivered,
                   conforming, polls, interrupts, raised>>

\* What a catch-all handler may raise, as the except clauses of the loop
\* body sort it: requests.exceptions.ReadTimeout, requests.exceptions
\* .ConnectionError (raised by an HTTP call of the handler's own), or any
\* other Exception.
HandlerExceptions == {"ReadTimeout", "ConnectionError", "Exception"}

\* the catch-all handler raises exc, which no try block around the handler
\* stops: it is taken by the except clause of the loop body that matches
\* its type.  ReadTimeout: continue.  ConnectionError:
\* self._trigger("connection_error"), time.sleep(5).  Any other Exception:
\* self._trigger("error", e), time.sleep(1).
RaiseCatchAll(exc) ==
    /\ pc = "in_msg"
    /\ raised' = raised \cup {idx}
    /\ CASE exc = "ReadTimeout" ->
               /\ pc' = "fetch"
               /\ UNCHANGED <<calls, fired, backoff>>
         [] exc = "ConnectionError" ->
               /\ \E raises \in BOOLEAN :
                      calls' = TriggerCalls(calls, "connection_error", 0, <<>>, raises)
               /\ fired' = TriggerFired(fired, "connection_error")
               /\ backoff' = ConnectionErrorSleep
               /\ pc' = "sleep"
         [] exc = "Exception" ->
               /\ \E raises \in BOOLEAN :
                      calls' = TriggerCalls(calls, "error", 0, <<"e">>, raises)
               /\ fired' = TriggerFired(fired, "error")
               /\ backoff' = LoopErrorSleep
               /\ pc' = "sleep"
    /\ UNCHANGED <<result, registry, reglog, objvars, sync_resp, backlog, after_ts, last_ts,
                   resp, batch, idx, hidx, delivered, conforming, polls,
                   interrupts>>

\* the loop over self.message_handlers is exhausted
EndCatchAll ==
    /\ pc = "route"
    /\ ~HasCommand
    /\ hidx > Len(message_handlers)
    /\ FinishMessage
    /\ UNCHANGED <<result, registry, reglog, objvars, sync_resp, backlog, after_ts, backoff,
                   last_ts, resp, batch, calls, fired, delivered,
                   conforming, polls, interrupts, raised>>

(***************************************************************************)
(* KeyboardInterrupt and the end of Bot.run.                               *)
(***************************************************************************)
InLoop == pc \in {"fetch", "advance", "route", "in_cmd", "in_msg", "sleep"}

\* KeyboardInterrupt before the `try ... except KeyboardInterrupt` of the
\* loop is entered: during SYNCING or before self._trigger("startup") calls
\* the handler (entered = FALSE), or while the startup handler runs or after
\* _trigger returned, in the logger.info that precedes the `try`
\* (entered = TRUE).  It leaves Bot.run uncaught.
InterruptBeforeLoop(entered) ==
    /\ pc \in {"sync", "startup"}
    /\ entered => pc = "startup"
    /\ interrupts < MaxInterrupts
    /\ interrupts' = interrupts + 1
    /\ IF entered
       THEN \E raises \in BOOLEAN :
                calls' = TriggerCalls(calls, "startup", 0, <<>>, raises)
       ELSE calls' = calls
    /\ fired' = IF entered THEN TriggerFired(fired, "startup") ELSE fired
    /\ pc' = "done"
    /\ result' = "KeyboardInterrupt"
    /\ UNCHANGED <<registry, reglog, objvars, sync_resp, backlog, after_ts, backoff,
                   last_ts, resp, batch, idx, hidx, delivered, conforming, polls, raised>>


\* KeyboardInterrupt while the answer of a fetch is being handled, before
\* the loop is back at the fetch, asleep, or at the first payload: in the
\* logger call that precedes `break`, time.sleep or _trigger, or in the
\* lookup of _trigger (entered = FALSE); while the connection_error or error
\* handler runs, or after _trigger returned and before time.sleep
\* (entered = TRUE).  The except clause of the outer `try` is entered.
\* After a ReadTimeout the only place left is the `continue`: the jump back
\* to `while True` delivers the interrupt at the head of the loop, outside
\* the inner `try` and outside the range the outer except clause guards, so
\* it leaves Bot.run uncaught: no shutdown handler, no sys.exit(0).
InterruptInPoll(kind, entered) ==
    /\ Fetch(kind)
    /\ kind \in {"403", "500", "ReadTimeout", "ConnectionError", "BadBody"}
    /\ entered => kind \in {"ConnectionError", "BadBody"}
    /\ interrupts < MaxInterrupts
    /\ interrupts' = interrupts + 1
    /\ batch' = <<>>
    /\ idx' = 0
    /\ hidx' = 0
    /\ LET n    == IF kind = "ConnectionError" THEN "connection_error" ELSE "error"
           args == IF kind = "ConnectionError" THEN <<>> ELSE <<"e">>
       IN  /\ IF entered
              THEN \E raises \in BOOLEAN :
                       calls' = TriggerCalls(<<>>, n, 0, args, raises)
              ELSE calls' = <<>>
           /\ fired' = IF entered THEN TriggerFired(fired, n) ELSE fired
    /\ pc' = IF kind = "ReadTimeout" THEN "done" ELSE "shutdown"
    /\ result' = IF kind = "ReadTimeout" THEN "KeyboardInterrupt" ELSE result
    /\ UNCHANGED <<conforming, backoff, backlog>>

\* KeyboardInterrupt after exc was raised for the payload at idx (by its
\* command handler, by a catch-all handler, by msg_data["timestamp"] or by
\* Message(...)) and before the loop has moved on: in the logger call of the
\* except clause or in the lookup of _trigger (entered = FALSE); while the
\* error or connection_error handler runs or after _trigger returned
\* (entered = TRUE).  Only a catch-all handler's exception reaches the
\* clauses for ReadTimeout and ConnectionError; after a ReadTimeout the
\* interrupt is delivered at the jump of `continue` and leaves Bot.run
\* uncaught, as in InterruptInPoll.
InterruptInReport(exc, entered) ==
    /\ pc \in {"in_cmd", "in_msg", "advance"}
    /\ exc # "Exception" => pc = "in_msg"
    /\ exc = "ReadTimeout" => ~entered
    /\ pc = "advance" =>
           (batch[idx].timestamp = NoTs \/ ParseFails(batch[idx]))
    /\ interrupts < MaxInterrupts
    /\ interrupts' = interrupts + 1
    /\ raised' = IF pc = "advance" THEN raised ELSE raised \cup {idx}
    /\ last_ts' = IF pc = "advance" /\ batch[idx].timestamp # NoTs
                  THEN batch[idx].timestamp
                  ELSE last_ts
    /\ after_ts' = IF pc = "advance" THEN NoTs ELSE after_ts
    /\ LET n    == IF exc = "ConnectionError" THEN "connection_error" ELSE "error"
           pos  == IF pc = "in_cmd" THEN idx ELSE 0
           args == CASE exc = "ConnectionError" -> <<>>
                     [] pc = "in_cmd" -> <<"e", batch[idx].id>>
                     [] OTHER -> <<"e">>
       IN  /\ IF entered
              THEN \E raises \in BOOLEAN :
                       calls' = TriggerCalls(calls, n, pos, args, raises)
              ELSE calls' = calls
           /\ fired' = IF entered THEN TriggerFired(fired, n) ELSE fired
    /\ pc' = IF exc = "ReadTimeout" THEN "done" ELSE "shutdown"
    /\ result' = IF exc = "ReadTimeout" THEN "KeyboardInterrupt" ELSE result
    /\ UNCHANGED <<registry, reglog, objvars, sync_resp, backlog, backoff, resp,
                   batch, idx, hidx, delivered, conforming, polls>>


\* KeyboardInterrupt inside the `try`: the except clause is entered
InterruptInLoop ==
    /\ InLoop
    /\ interrupts < MaxInterrupts
    /\ interrupts' = interrupts + 1
    /\ pc' = "shutdown"
    /\ UNCHANGED <<result, registry, reglog, objvars, sync_resp, backlog, after_ts, backoff,
                   last_ts, resp, batch, idx, hidx, calls, fired, delivered,
                   conforming, polls, raised>>

\* self._trigger("shutdown"); sys.exit(0)
Shutdown ==
    /\ pc = "shutdown"
    /\ \E raises \in BOOLEAN : calls' = TriggerCalls(calls, "shutdown", 0, <<>>, raises)
    /\ fired' = TriggerFired(fired, "shutdown")
    /\ pc' = "done"
    /\ result' = "exit0"
    /\ UNCHANGED <<registry, reglog, objvars, sync_resp, backlog, after_ts, backoff, last_ts,
                   resp, batch, idx, hidx, delivered, conforming, polls,
                   interrupts, raised>>

\* another KeyboardInterrupt inside the except clause: before the shutdown
\* handler is entered (entered = FALSE); while it runs, or after it returned
\* or raised an Exception that _trigger logged, before sys.exit(0)
\* (entered = TRUE)
InterruptInShutdown(entered) ==
    /\ pc = "shutdown"
    /\ interrupts < MaxInterrupts
    /\ interrupts' = interrupts + 1
    /\ IF entered
       THEN \E raises \in BOOLEAN :
                calls' = TriggerCalls(calls, "shutdown", 0, <<>>, raises)
       ELSE calls' = calls
    /\ fired' = IF entered THEN TriggerFired(fired, "shutdown") ELSE fired
    /\ pc' = "done"
    /\ result' = "KeyboardInterrupt"
    /\ UNCHANGED <<registry, reglog, objvars, sync_resp, backlog, after_ts, backoff, last_ts,
                   resp, batch, idx, hidx, delivered, conforming, polls,
                   raised>>

(***************************************************************************)
(* Bot.run on a Bot whose handlers were registered by one of RunScripts.   *)
(***************************************************************************)
RunScripts ==
    { <<>>,
      <<CommandCall(Cmd, "f1", 2), OnMessageCall("f1"), OnMessageCall("f2"),
        EventCall("startup", "f1"), EventCall("shutdown", "f1"),
        EventCall("connection_error", "f1"), EventCall("error", "f1")>>,
      <<OnMessageCall("f2"), EventCall("error", "f2")>>,
      <<CommandCall(Cmd, "f2", 1), EventCall("shutdown", "f2")>>,
      <<CommandCall(Cmd, "f1", 2), CommandCall(CmdUpper, "f1", 2),
        CommandCall(Cmd, "f2", 3)>>,
      <<CommandCall(CmdUpper, "f1", 1), OnMessageCall("f2")>> }

Init == \E script \in RunScripts :
            BotState(ApplyScript(script), script, "sync") /\ NoObjects

Next ==
    \/ \E b \in Batches, now \in Clock : SyncOk(b, now)
    \/ \E now \in Clock : SyncFail(now)
    \/ Startup
    \/ \E b \in Batches : PollOk(b)
    \/ Poll403
    \/ PollServerError
    \/ PollTimeout
    \/ PollConnectionError
    \/ PollBadBody
    \/ WakeUp
    \/ AdvanceCursor
    \/ AdvanceKeyError
    \/ AdvanceParseError
    \/ CallCommand
    \/ ReturnCommand
    \/ RaiseCommand
    \/ CallCatchAll
    \/ ReturnCatchAll
    \/ \E exc \in HandlerExceptions : RaiseCatchAll(exc)
    \/ EndCatchAll
    \/ \E entered \in BOOLEAN : InterruptBeforeLoop(entered)
    \/ InterruptInLoop
    \/ \E kind \in {"403", "500", "ReadTimeout", "ConnectionError", "BadBody"},
          entered \in BOOLEAN :
           InterruptInPoll(kind, entered)
    \/ \E exc \in HandlerExceptions, entered \in BOOLEAN : InterruptInReport(exc, entered)
    \/ Shutdown
    \/ \E entered \in BOOLEAN : InterruptInShutdown(entered)

Spec == Init /\ [][Next]_vars

(***************************************************************************)
(* Observations on the invocation log used by the properties below.        *)
(***************************************************************************)
Max(S) == CHOOSE x \in S : \A y \in S : y <= x

\* The command of the payload at position p, as Message parses it.
Registered(p) == Message(batch[p]).command \in DOMAIN command_handlers

\* Invocations of command and catch-all handlers for the message at position p.
HandlerCalls(p) ==
    SelectSeq(calls, LAMBDA c : c.kind \in {"command", "message"} /\ c.pos = p)

\* Invocations of the `error` lifecycle handler, in order.
ErrorCalls ==
    SelectSeq(calls, LAMBDA c : c.kind = "event" /\ c.name = "error")

\* The handler last registered with Bot.event under name n, or None.
LastEventFunc(n) ==
    LET I == {i \in 1..Len(reglog) : reglog[i].op = "event" /\ reglog[i].name = n}
    IN  IF I = {} THEN None ELSE reglog[Max(I)].func

ShutdownSlot == IF event_handlers["shutdown"] # None THEN 1 ELSE 0

(***************************************************************************)
(* C1.  Every message the loop takes up is routed to exactly one target:   *)
(* if its command is a registered trigger, that command handler is invoked *)
(* exactly once and no catch-all handler is invoked for it, also when the  *)
(* command handler raised; otherwise no command handler is invoked and the *)
(* catch-all handlers are.                                                 *)
(***************************************************************************)
C1_ExclusiveRouting ==
    \A p \in 1..Len(batch) :
        LET m  == Message(batch[p])
            cs == HandlerCalls(p)
        IN  IF m.command \in DOMAIN command_handlers
            THEN /\ Len(cs) <= 1
                 /\ p < idx => Len(cs) = 1
                 /\ \A i \in 1..Len(cs) :
                        /\ cs[i].kind = "command"
                        /\ cs[i].name = m.command
                        /\ cs[i].func = command_handlers[m.command].func
                        /\ cs[i].args[1] = m.id
            ELSE /\ \A i \in 1..Len(cs) : cs[i].kind = "message" /\ cs[i].args = <<m.id>>
                 /\ p < idx => [i \in 1..Len(cs) |-> cs[i].func] = message_handlers

\* A batch in which a command handler raised and a later message went to
\* the catch-all handlers.
C1_Witness ==
    \E p, q \in 1..Len(batch) :
        /\ p < q /\ q < idx
        /\ Registered(p) /\ p \in raised
        /\ ~Registered(q) /\ HandlerCalls(q) # <<>>

(***************************************************************************)
(* C2.  When a command handler raises for message m, the `error` handler   *)
(* (if registered) is invoked exactly once with (error, m), the loop moves *)
(* on to the next message of the batch and run keeps running.  A           *)
(* KeyboardInterrupt that arrives while the error is reported ends the     *)
(* processing at m (C5): the error handler has then been invoked at most   *)
(* once.                                                                   *)
(***************************************************************************)
C2_Reported ==
    \A p \in raised :
        Registered(p) =>
            /\ p < idx \/ (p = idx /\ interrupts > 0)
            /\ Len(SelectSeq(ErrorCalls, LAMBDA c : c.pos = p)) <=
                   (IF event_handlers["error"] # None THEN 1 ELSE 0)
            /\ p < idx =>
                   Len(SelectSeq(ErrorCalls, LAMBDA c : c.pos = p)) =
                       (IF event_handlers["error"] # None THEN 1 ELSE 0)
            /\ \A i \in 1..Len(ErrorCalls) :
                   ErrorCalls[i].pos = p =>
                       /\ ErrorCalls[i].args = <<"e", batch[p].id>>
                       /\ ErrorCalls[i].func = event_handlers["error"]
            /\ result = "running" \/ interrupts > 0

C2_Continues ==
    \A p \in 1..Len(batch) :
        (/\ pc = "in_cmd"
         /\ p \notin raised /\ p \in raised'
         /\ interrupts' = interrupts) =>
            /\ batch' = batch
            /\ idx' = p + 1
            /\ pc' = IF p = Len(batch) THEN "fetch" ELSE "advance"
            /\ result' = "running"

\* C2: a raising command handler is reported once with (error, m) and the
\* loop goes on with the next message.
C2_CommandErrorIsolated == []C2_Reported /\ [][C2_Continues]_vars

\* A command handler raised for a message that is not the last of its
\* batch, the error handler was invoked, and the next message is being routed.
C2_Witness ==
    /\ pc = "route"
    /\ idx > 1
    /\ (idx - 1) \in raised
    /\ Registered(idx - 1)
    /\ ErrorCalls # <<>>

(***************************************************************************)
(* C4.  A LISTENING poll answered 403 ends run at once: no handler is      *)
(* invoked, `shutdown` is never invoked, no further step is taken, and run *)
(* returns normally.                                                       *)
(***************************************************************************)
C4_Stopped ==
    (resp = "403" /\ interrupts = 0) =>
        /\ pc = "done"
        /\ result = "returned"
        /\ calls = <<>>
        /\ fired["shutdown"] = 0

\* C4: after a 403 poll run has returned, without handler calls, without
\* shutdown, and takes no further step.  (A KeyboardInterrupt that arrives
\* before the `break` is the subject of C5.)
C4_AuthFailureEndsRun ==
    []C4_Stopped /\ [][(resp = "403" /\ interrupts = 0) => UNCHANGED vars]_vars

\* 403 arrives after an earlier iteration, with a shutdown handler registered.
C4_Witness ==
    /\ resp = "403"
    /\ polls >= 2
    /\ event_handlers["shutdown"] # None
    /\ delivered # {}

(***************************************************************************)
(* C5.  A KeyboardInterrupt during LISTENING leaves the loop, invokes the  *)
(* `shutdown` handler once and exits with status 0; `shutdown` is invoked  *)
(* at most once per run and only after an interrupt.                       *)
(***************************************************************************)
C5_Counts ==
    /\ fired["shutdown"] <= 1
    /\ fired["shutdown"] = 1 => interrupts >= 1
    /\ result = "exit0" =>
           /\ pc = "done"
           /\ interrupts >= 1
           /\ fired["shutdown"] = ShutdownSlot

C5_Steps ==
    /\ (InLoop /\ interrupts' = interrupts + 1) => pc' = "shutdown"
    /\ (pc = "shutdown" /\ interrupts' = interrupts) =>
           /\ pc' = "done"
           /\ result' = "exit0"
           /\ fired'["shutdown"] = fired["shutdown"] + ShutdownSlot

\* C5: an interrupt in the loop leads to one shutdown call and exit status 0;
\* shutdown is called at most once and only after an interrupt.
C5_InterruptShutsDown == []C5_Counts /\ [][C5_Steps]_vars

(***************************************************************************)
(* C3.  Whenever a handler (command or catch-all) raises for message m,    *)
(* the `error` handler is invoked with (error, m) and every later message  *)
(* of the batch is processed before the iteration ends.                    *)
(***************************************************************************)
C3_AnyHandlerErrorIsolated ==
    \A p \in raised :
        /\ event_handlers["error"] # None =>
               \E i \in 1..Len(ErrorCalls) : ErrorCalls[i].args = <<"e", batch[p].id>>
        /\ (pc \in {"sleep", "fetch"} /\ \A q \in 1..Len(batch) : batch[q].timestamp # NoTs)
               => idx > Len(batch)

(***************************************************************************)
(* C6.  run ends either by returning after a 403 or by the cooperative     *)
(* shutdown (exit status 0); nothing else ends it, in particular no        *)
(* interrupt escapes as an unhandled KeyboardInterrupt.                    *)
(***************************************************************************)
C6_OnlyTwoEndings ==
    pc = "done" =>
        \/ result = "returned" /\ resp = "403"
        \/ result = "exit0" /\ interrupts >= 1

(***************************************************************************)
(* C7.  The cursor never decreases, and once a batch with timestamps       *)
(* t1 < t2 < t3 has been processed the cursor is t3.                       *)
(***************************************************************************)
Processed3 ==
    /\ Len(batch) = 3
    /\ idx = 4
    /\ batch[1].timestamp # NoTs
    /\ batch[1].timestamp < batch[2].timestamp
    /\ batch[2].timestamp < batch[3].timestamp

C7_Step ==
    /\ last_ts' >= last_ts
    /\ Processed3' => last_ts' = batch'[3].timestamp

\* C7: no step decreases the cursor, and a processed batch t1 < t2 < t3
\* leaves it at t3.
C7_CursorNonDecreasing == [][C7_Step]_vars

(***************************************************************************)
(* C8.  While a handler is about to be or is being invoked for a message,  *)
(* the cursor equals that message's timestamp; and when a handler failed   *)
(* for message m of the batch just processed, the next fetch asks with an  *)
(* `after` of at least timestamp(m) and, every answer having listed only   *)
(* items after the `after` of its fetch, does not return m again.          *)
(***************************************************************************)
\* Every answer so far, that of SYNCING included, listed only items with a
\* timestamp after the `after` of its fetch.
OnlyAfterSoFar == backlog.cursor # NoTs

C8_Cursor ==
    pc \in {"route", "in_cmd", "in_msg"} => last_ts = batch[idx].timestamp

C8_Step ==
    (pc = "fetch" /\ polls' = polls + 1 /\ OnlyAfterSoFar') =>
        \A p \in raised :
            /\ after_ts' >= batch[p].timestamp
            /\ resp' = "200" =>
                   \A i \in 1..Len(batch') : batch'[i].id # batch[p].id

\* C8: the cursor is at a message's timestamp before its handlers are
\* invoked, and a message whose handler failed is not fetched again.
C8_AdvanceBeforeDispatch == []C8_Cursor /\ [][C8_Step]_vars

(***************************************************************************)
(* C9.  The lifecycle slots are always exactly the four known names, each  *)
(* holding the handler last registered under that name (or none);          *)
(* Bot.event with another name returns normally and changes no slot.       *)
(***************************************************************************)
C9_Slots ==
    /\ DOMAIN event_handlers = EventNames
    /\ \A n \in EventNames : event_handlers[n] = LastEventFunc(n)
    /\ pc = "setup" => result \in {"none", "returned"}

C9_UnknownName ==
    (/\ Len(reglog') = Len(reglog) + 1
     /\ reglog'[Len(reglog')].op = "event"
     /\ reglog'[Len(reglog')].name \notin EventNames)
        => event_handlers' = event_handlers /\ result' = "returned"

\* C9: the slots are the four names holding the last registered handlers;
\* an unknown name changes nothing and returns normally.
C9_EventRegistration == []C9_Slots /\ [][C9_UnknownName]_vars

\* A slot was registered twice with different handlers and then Bot.event
\* was called with an unknown name.
C9_Witness ==
    /\ Len(reglog) = 3
    /\ reglog[1].op = "event" /\ reglog[2].op = "event" /\ reglog[3].op = "event"
    /\ reglog[1].name = reglog[2].name
    /\ reglog[1].name \in EventNames
    /\ reglog[1].func # reglog[2].func
    /\ reglog[3].name \notin EventNames

(***************************************************************************)
(* C10.  For every message whose command is not a registered trigger and  *)
(* whose dispatch is over, the catch-all invocations are exactly the       *)
(* registered catch-all handlers, once each, in registration order.        *)
(***************************************************************************)
C10_AllCatchAllsInOrder ==
    \A p \in 1..Len(batch) :
        ((p < idx \/ p \in raised) /\ ~Registered(p)) =>
            LET cs == HandlerCalls(p)
            IN  /\ [i \in 1..Len(cs) |-> cs[i].func] = message_handlers
                /\ \A i \in 1..Len(cs) : cs[i].args = <<batch[p].id>>

(***************************************************************************)
(* C11.  A command handler is invoked with (message) when it was           *)
(* registered declaring one parameter and with (message, message.args)     *)
(* when it declared two; the shape recorded at registration is the one     *)
(* used at dispatch.                                                       *)
(***************************************************************************)
\* Number of parameters declared by the handler last registered for t.
LastCommandParams(t) ==
    LET I == {i \in 1..Len(reglog) : reglog[i].op = "command" /\ reglog[i].name = t}
    IN  reglog[Max(I)].nparams

C11_ShapeByArity ==
    /\ \A t \in DOMAIN command_handlers :
           /\ LastCommandParams(t) = 1 => ~command_handlers[t].wants_args
           /\ LastCommandParams(t) = 2 => command_handlers[t].wants_args
    /\ \A i \in 1..Len(calls) :
           calls[i].kind = "command" =>
               LET m == Message(batch[calls[i].pos])
                   n == LastCommandParams(calls[i].name)
               IN  /\ n = 1 => calls[i].args = <<m.id>>
                   /\ n = 2 => calls[i].args = <<m.id, m.args>>

\* A handler declaring two parameters is running for a message with an
\* argument, after a message without arguments went to the same handler.
C11_Witness ==
    /\ pc = "in_cmd"
    /\ Len(calls) >= 2
    /\ calls[1].kind = "command" /\ calls[1].args = <<3, <<>>>>
    /\ calls[Len(calls)].kind = "command"
    /\ calls[Len(calls)].args = <<1, <<<<"a">>>>>>
    /\ LastCommandParams(Cmd) = 2

(***************************************************************************)
(* C12.  A Message has as text the trimmed input, as command the           *)
(* lowercased first token of the trimmed text split at its first run of    *)
(* whitespace characters (the empty string for an empty text), and as args *)
(* the remainder split on whitespace.                                      *)
(***************************************************************************)
C12_ParsedByWhitespace ==
    pc = "parsed" =>
        LET text   == Strip(ptext)
            tokens == SplitWS(text)
        IN  /\ parsed.text = text
            /\ parsed.command = (IF tokens = <<>> THEN <<>> ELSE Lower(tokens[1]))
            /\ parsed.args = (IF tokens = <<>> THEN <<>> ELSE Tail(tokens))

(***************************************************************************)
(* C13.  SentMessage.edit(new_text) returns true and sets text to new_text *)
(* exactly when the edit request succeeded; on a failure (status other     *)
(* than 200, exception, missing id) it returns false and leaves text, id   *)
(* and timestamp as they were.  After any sequence of edits the text is    *)
(* the initial text or the new_text of the last successful edit.           *)
(***************************************************************************)
C13_Log ==
    pc = "sent" =>
        LET ok == {i \in 1..Len(edit_log) : edit_log[i].put = "200"}
        IN  /\ \A i \in 1..Len(edit_log) : edit_log[i].ret = (i \in ok)
            /\ sent.id \in {None, ""} => ok = {}
            /\ sent.text = IF ok = {} THEN initial_text ELSE edit_log[Max(ok)].new_text

C13_Step ==
    (pc = "sent" /\ Len(edit_log') = Len(edit_log) + 1) =>
        LET e == edit_log'[Len(edit_log')]
        IN  /\ sent'.id = sent.id
            /\ sent'.timestamp = sent.timestamp
            /\ sent'.text = IF e.ret THEN e.new_text ELSE sent.text

\* C13: edit returns true and replaces the text exactly on a 200 answer,
\* and otherwise changes nothing; the text is that of the last success.
C13_EditOnlyOnSuccess == []C13_Log /\ [][C13_Step]_vars

\* A successful edit was followed by a rejected one and by one that raised,
\* both with another text.
C13_Witness ==
    /\ pc = "sent"
    /\ Len(edit_log) = 3
    /\ edit_log[1].put = "200" /\ edit_log[1].new_text # initial_text
    /\ edit_log[2].put = "500" /\ edit_log[2].new_text # edit_log[1].new_text
    /\ edit_log[3].put = "Exception" /\ edit_log[3].new_text # edit_log[1].new_text
    /\ sent.text = edit_log[1].new_text

(***************************************************************************)
(* Observations on single steps used by the properties below.              *)
(***************************************************************************)
\* 1 if a handler is registered in the lifecycle slot n, else 0.
Slot(n) == IF event_handlers[n] # None THEN 1 ELSE 0

\* The step is not the delivery of a KeyboardInterrupt.
NoInterrupt == interrupts' = interrupts

\* The step issues a LISTENING fetch that ends with one of `kinds`, and no
\* KeyboardInterrupt arrives while the answer is handled.
PollEnds(kinds) == polls' = polls + 1 /\ resp' \in kinds /\ NoInterrupt

\* The handler invocations made by the step.
NewCalls ==
    IF polls' = polls + 1 THEN calls' ELSE SubSeq(calls', Len(calls) + 1, Len(calls'))

\* The step invokes the lifecycle handler n once, with args, and nothing else.
InvokesOnly(n, args) ==
    /\ Len(NewCalls) = Slot(n)
    /\ \A i \in 1..Len(NewCalls) :
           /\ NewCalls[i].kind = "event"
           /\ NewCalls[i].name = n
           /\ NewCalls[i].func = event_handlers[n]
           /\ NewCalls[i].args = args
    /\ fired' = [fired EXCEPT ![n] = @ + Slot(n)]

(***************************************************************************)
(* C14.  SYNCING makes exactly one fetch, with after = 0.  After an answer *)
(* 200 with a non-empty list the cursor is the timestamp of the last item  *)
(* plus a strictly positive epsilon; after an empty list, another status   *)
(* or any failure it is the wall-clock time.  LISTENING comes next.        *)
(***************************************************************************)
C14_Cursor ==
    /\ Epsilon > 0
    /\ pc = "sync" => sync_resp = NoSync /\ polls = 0
    /\ pc = "startup" =>
           LET b == sync_resp.body
           IN  /\ sync_resp.status \in {"200", "403", "500", "Exception"}
               /\ after_ts = 0
               /\ polls = 0
               /\ IF sync_resp.status = "200" /\ b # <<>> /\ b[Len(b)].timestamp # NoTs
                  THEN last_ts = b[Len(b)].timestamp + Epsilon
                  ELSE last_ts = sync_resp.now

C14_Steps ==
    /\ (pc = "sync" /\ NoInterrupt) => pc' = "startup"
    /\ (pc = "startup" /\ NoInterrupt) =>
           pc' = "fetch" /\ result' = "running" /\ last_ts' = last_ts
    /\ pc' = "sync" => pc = "sync"
    /\ sync_resp' # sync_resp => (pc = "sync" \/ sync_resp' = NoSync)

\* C14: one sync fetch with after = 0 sets the cursor to last timestamp +
\* epsilon or to the wall clock, and the loop goes on to LISTENING.
C14_SyncSetsCursor == []C14_Cursor /\ [][C14_Steps]_vars

\* The sync fetch returned two items and the cursor lies just above the
\* timestamp of the second.
C14_Witness ==
    /\ pc = "startup"
    /\ sync_resp.status = "200"
    /\ Len(sync_resp.body) = 2
    /\ sync_resp.body[2].timestamp # NoTs
    /\ last_ts = sync_resp.body[2].timestamp + 1
    /\ last_ts # sync_resp.now

(***************************************************************************)
(* C15.  The `startup` handler (if registered) is invoked exactly once per *)
(* run, after the sync fetch and before the first LISTENING fetch,         *)
(* whatever the sync fetch returned; if it raises, the loop still enters   *)
(* LISTENING.                                                              *)
(***************************************************************************)
C15_Count ==
    /\ fired["startup"] <= Slot("startup")
    /\ pc \in {"sync", "startup"} => fired["startup"] = 0 /\ polls = 0
    /\ (InLoop \/ polls > 0) => fired["startup"] = Slot("startup")

C15_Steps ==
    /\ (pc = "startup" /\ NoInterrupt) =>
           /\ InvokesOnly("startup", <<>>)
           /\ pc' = "fetch"
           /\ result' = "running"
           /\ polls' = 0
    /\ fired'["startup"] # fired["startup"] => pc = "startup"

\* C15: startup is invoked once, between the sync fetch and the first poll,
\* for every sync outcome, and a raising startup handler changes nothing.
C15_StartupOnce == []C15_Count /\ [][C15_Steps]_vars

\* The sync fetch was answered 403, the startup handler raised, and the
\* loop is about to issue its first fetch.
C15_Witness ==
    /\ pc = "fetch"
    /\ polls = 0
    /\ sync_resp.status = "403"
    /\ Len(calls) = 1
    /\ calls[1].kind = "event"
    /\ calls[1].name = "startup"
    /\ calls[1].raises
    /\ result = "running"

(***************************************************************************)
(* C16.  A LISTENING poll that ends in ReadTimeout or in a status other    *)
(* than 200 and 403 leaves the cursor unchanged and invokes no handler;    *)
(* the loop fetches again with the same after_ts, at once after a timeout  *)
(* and after the backoff sleep after an error status.                      *)
(***************************************************************************)
C16_Idle ==
    (resp \in {"ReadTimeout", "500"} /\ interrupts = 0) =>
        /\ calls = <<>>
        /\ last_ts = after_ts
        /\ result = "running"
        /\ pc = IF resp = "500" /\ backoff # 0 THEN "sleep" ELSE "fetch"

C16_Steps ==
    /\ PollEnds({"ReadTimeout", "500"}) =>
           /\ last_ts' = last_ts
           /\ after_ts' = last_ts
           /\ fired' = fired
           /\ delivered' = delivered
           /\ backoff' = IF resp' = "500" THEN ServerErrorSleep ELSE 0
    /\ (resp \in {"ReadTimeout", "500"} /\ interrupts' = 0) =>
           IF polls' = polls + 1
           THEN after_ts' = after_ts
           ELSE /\ pc = "sleep" /\ pc' = "fetch"
                /\ UNCHANGED <<last_ts, calls, fired, delivered, result>>

\* C16: a timeout or an error status changes neither the cursor nor the
\* invocation log, and the next fetch repeats the same after_ts.
C16_IdlePollNoEffect == []C16_Idle /\ [][C16_Steps]_vars

\* After a batch was handled a poll ended with an error status, the sleep
\* is over and the loop is about to fetch with the cursor it had.
C16_Witness ==
    /\ resp = "500"
    /\ polls >= 2
    /\ backoff = 0
    /\ delivered # {}
    /\ after_ts = last_ts
    /\ after_ts \in {p.timestamp : p \in Payloads}
    /\ event_handlers["error"] # None
    /\ fired["error"] = 0
    /\ pc = "fetch"

(***************************************************************************)
(* C17.  A LISTENING poll that ends in ConnectionError invokes the         *)
(* `connection_error` handler (if registered) once, without arguments,     *)
(* whether or not it raises; the loop sleeps the fixed backoff and fetches *)
(* again with the cursor unchanged.  run goes on, and neither `error` nor  *)
(* `shutdown` is invoked.                                                  *)
(***************************************************************************)
C17_Recovering ==
    (resp = "ConnectionError" /\ interrupts = 0) =>
        /\ result = "running"
        /\ pc = IF backoff # 0 THEN "sleep" ELSE "fetch"
        /\ Len(calls) = Slot("connection_error")
        /\ \A i \in 1..Len(calls) : calls[i].name = "connection_error"
        /\ last_ts = after_ts

C17_Steps ==
    /\ PollEnds({"ConnectionError"}) =>
           /\ InvokesOnly("connection_error", <<>>)
           /\ last_ts' = last_ts
           /\ after_ts' = last_ts
           /\ delivered' = delivered
           /\ backoff' = ConnectionErrorSleep
    /\ (resp = "ConnectionError" /\ interrupts' = 0) =>
           IF polls' = polls + 1
           THEN after_ts' = after_ts
           ELSE /\ pc = "sleep" /\ pc' = "fetch"
                /\ UNCHANGED <<last_ts, calls, fired, delivered, result>>

\* C17: a connection failure is reported once to connection_error, with no
\* arguments, and after the backoff the same fetch is repeated.
C17_ConnectionErrorRecovers == []C17_Recovering /\ [][C17_Steps]_vars

\* After a batch was handled the connection failed, the connection_error
\* handler raised, the sleep is over and the loop is about to fetch again.
C17_Witness ==
    /\ resp = "ConnectionError"
    /\ polls >= 2
    /\ delivered # {}
    /\ pc = "fetch"
    /\ backoff = 0
    /\ Len(calls) = 1
    /\ calls[1].raises
    /\ event_handlers["error"] # None
    /\ fired["error"] = 0
    /\ interrupts = 0

(***************************************************************************)
(* C18.  An Exception in the loop body that does not come from a command   *)
(* handler (an undecodable response body, a payload without timestamp, a   *)
(* payload Message() cannot parse, a raising catch-all handler) invokes    *)
(* the `error` handler with (error) only; the loop sleeps a short backoff  *)
(* and goes on fetching.                                                   *)
(***************************************************************************)
C18_Unexpected ==
    \/ PollEnds({"BadBody"})
    \/ /\ pc = "advance"
       /\ batch[idx].timestamp = NoTs \/ ParseFails(batch[idx])
       /\ NoInterrupt
    \/ pc = "in_msg" /\ raised' # raised /\ NoInterrupt

C18_Steps ==
    /\ C18_Unexpected =>
           /\ InvokesOnly("error", <<"e">>)
           /\ backoff' = LoopErrorSleep
           /\ pc' = "sleep"
           /\ result' = "running"
    /\ (pc = "sleep" /\ NoInterrupt) =>
           /\ pc' = "fetch"
           /\ UNCHANGED <<last_ts, calls, fired, delivered, result>>

\* C18: such an error is reported with (error) only, followed by the short
\* sleep and a new fetch; run ends only by a 403 or an interrupt.
C18_LoopErrorRecovers ==
    [](pc = "done" /\ interrupts = 0 => resp = "403") /\ [][C18_Steps]_vars


(***************************************************************************)
(* C19.  When a lifecycle handler invoked by Bot._trigger raises, nothing  *)
(* else is invoked because of it (in particular not the `error` handler)   *)
(* and the loop goes where it goes when the handler returns.  Steps in     *)
(* which a KeyboardInterrupt is delivered as well are left to C6.          *)
(***************************************************************************)
C19_Step ==
    \A i \in 1..Len(NewCalls) :
        (NewCalls[i].kind = "event" /\ NewCalls[i].raises /\ NoInterrupt) =>
            LET n == NewCalls[i].name
            IN  /\ Len(NewCalls) = 1
                /\ fired' = [fired EXCEPT ![n] = @ + 1]
                /\ n = "startup" => pc' = "fetch" /\ result' = "running"
                /\ n = "shutdown" => pc' = "done" /\ result' = "exit0"
                /\ n = "connection_error" => pc' = "sleep" /\ result' = "running"
                /\ n = "error" =>
                       /\ result' = "running"
                       /\ pc' = IF NewCalls[i].pos = 0 THEN "sleep"
                                ELSE IF idx = Len(batch) THEN "fetch" ELSE "advance"

\* C19: a raising lifecycle handler causes no further invocation and does
\* not change the next position of the loop.
C19_TriggerSwallows == [][C19_Step]_vars

\* The error handler raised while reporting a failed command handler, the
\* batch was processed to its end, and the shutdown handler raised too.
C19_Witness ==
    /\ pc = "done"
    /\ result = "exit0"
    /\ Len(calls) >= 4
    /\ calls[2].kind = "event" /\ calls[2].name = "error"
    /\ calls[2].raises /\ calls[2].pos = 1
    /\ calls[3].kind = "message"
    /\ calls[Len(calls)].kind = "event" /\ calls[Len(calls)].name = "shutdown"
    /\ calls[Len(calls)].raises

(***************************************************************************)
(* C20.  The messages of a poll are processed in the order returned, the   *)
(* invocations for a message (the `error` handler it caused included)      *)
(* come before those for the next one, no fetch is issued while a batch is *)
(* being processed, and at most one handler is executing.                  *)
(***************************************************************************)
\* The processing of the batch was abandoned at the message at idx.
Aborted ==
    /\ idx \in 1..Len(batch)
    /\ \/ batch[idx].timestamp = NoTs
       \/ ParseFails(batch[idx])
       \/ idx \in raised /\ ~Registered(idx)

C20_InOrder ==
    /\ \A i, j \in 1..Len(calls) :
           (i < j /\ calls[i].pos > 0 /\ calls[j].pos > 0) => calls[i].pos <= calls[j].pos
    /\ \A i \in 1..Len(calls) :
           /\ calls[i].pos <= idx
           /\ (calls[i].kind = "event" /\ calls[i].pos > 0) =>
                  /\ i > 1
                  /\ calls[i - 1].kind = "command"
                  /\ calls[i - 1].pos = calls[i].pos
    /\ pc \in {"in_cmd", "in_msg"} =>
           /\ calls # <<>>
           /\ calls[Len(calls)].pos = idx
           /\ calls[Len(calls)].kind = IF pc = "in_cmd" THEN "command" ELSE "message"
    /\ (pc = "fetch" /\ resp = "200") => (idx > Len(batch) \/ Aborted)

C20_Steps ==
    /\ polls' = polls + 1 => pc = "fetch"
    /\ polls' = polls => batch' = batch /\ idx' \in {idx, idx + 1}

\* C20: handler invocations follow the order of the batch, one message
\* after the other, and a fetch is issued only between batches.
C20_SequentialBatch == []C20_InOrder /\ [][C20_Steps]_vars

\* In one batch a command handler raised for the first message, its error
\* was reported, the second message went through both catch-all handlers
\* and a handler is running for the third.
C20_Witness ==
    /\ pc \in {"in_cmd", "in_msg"}
    /\ idx = 3
    /\ Len(calls) = 5
    /\ calls[1].kind = "command" /\ calls[1].pos = 1
    /\ calls[2].kind = "event" /\ calls[2].pos = 1
    /\ calls[3].kind = "message" /\ calls[3].pos = 2
    /\ calls[4].kind = "message" /\ calls[4].pos = 2
    /\ calls[5].pos = 3

(***************************************************************************)
(* C21.  An interrupt takes effect only between iterations: the loop       *)
(* leaves for the shutdown only when no handler is running and no message  *)
(* of the batch in progress is left to handle.                             *)
(***************************************************************************)
C21_Step ==
    (pc' = "shutdown" /\ pc # "shutdown") =>
        /\ pc \in {"fetch", "sleep"}
        /\ resp = "200" => (idx > Len(batch) \/ Aborted)

\* C21: no step enters the shutdown from inside a handler or from the
\* middle of a batch.
C21_CooperativeCancellation == [][C21_Step]_vars

(***************************************************************************)
(* C22.  A command handler declaring more than two parameters is           *)
(* registered under its trigger and is invoked with (message,              *)
(* message.args).                                                          *)
(***************************************************************************)
C22_ExtraParamsGetArgs ==
    /\ \A i \in 1..Len(reglog) :
           reglog[i].op = "command" => reglog[i].name \in DOMAIN command_handlers
    /\ \A i \in 1..Len(calls) :
           (calls[i].kind = "command" /\ LastCommandParams(calls[i].name) > 2) =>
               LET m == Message(batch[calls[i].pos])
               IN  calls[i].args = <<m.id, m.args>>

(***************************************************************************)
(* C23.  After any sequence of Bot.command registrations each registered   *)
(* trigger maps to exactly one entry, the handler and shape of the last    *)
(* registration under that trigger (so registering one trigger leaves the  *)
(* entries of the others alone), and a message with that command invokes   *)
(* that handler and no earlier one.                                        *)
(***************************************************************************)
\* The last Bot.command registration under trigger t.
LastCommandReg(t) ==
    LET I == {i \in 1..Len(reglog) : reglog[i].op = "command" /\ reglog[i].name = t}
    IN  reglog[Max(I)]

C23_LastRegistrationWins ==
    /\ DOMAIN command_handlers =
           {reglog[i].name : i \in {j \in 1..Len(reglog) : reglog[j].op = "command"}}
    /\ \A t \in DOMAIN command_handlers :
           /\ command_handlers[t].func = LastCommandReg(t).func
           /\ command_handlers[t].wants_args = (LastCommandReg(t).nparams = 2)
    /\ \A i \in 1..Len(calls) :
           calls[i].kind = "command" => calls[i].func = LastCommandReg(calls[i].name).func

\* A trigger was registered twice with different handlers, another trigger
\* in between, and the handler of the second registration is running.
C23_Witness ==
    /\ pc = "in_cmd"
    /\ Len(reglog) = 3
    /\ reglog[1].op = "command" /\ reglog[3].op = "command"
    /\ reglog[1].name = reglog[3].name
    /\ reglog[2].name # reglog[1].name
    /\ reglog[1].func # reglog[3].func
    /\ calls[Len(calls)].kind = "command"
    /\ calls[Len(calls)].name = reglog[3].name
    /\ calls[Len(calls)].func = reglog[3].func
    /\ command_handlers[reglog[2].name].func = reglog[2].func

(***************************************************************************)
(* C26.  A command handler registered under a trigger with an uppercase    *)
(* character is never invoked by Bot.run; a message whose first token      *)
(* equals such a trigger in any letter case goes to the handler registered *)
(* under the lowercase form if there is one, else to the catch-all         *)
(* handlers.                                                               *)
(***************************************************************************)
HasUpper(t) == \E i \in 1..Len(t) : LowerChar(t[i]) # t[i]

\* The registered triggers with an uppercase character.
UpperTriggers == {t \in DOMAIN command_handlers : HasUpper(t)}

C26_UppercaseTriggerDead ==
    /\ \A i \in 1..Len(calls) :
           calls[i].kind = "command" =>
               /\ ~HasUpper(calls[i].name)
               /\ calls[i].func = command_handlers[calls[i].name].func
    /\ \A p \in 1..Len(batch) :
           LET m  == Message(batch[p])
               cs == HandlerCalls(p)
           IN  (p < idx /\ \E t \in UpperTriggers : Lower(t) = m.command) =>
                   IF m.command \in DOMAIN command_handlers
                   THEN /\ Len(cs) = 1
                        /\ cs[1].kind = "command"
                        /\ cs[1].name = m.command
                   ELSE /\ \A i \in 1..Len(cs) : cs[i].kind = "message"
                        /\ [i \in 1..Len(cs) |-> cs[i].func] = message_handlers

\* Only an uppercase trigger is registered; a message spelling it in
\* lowercase went to the catch-all handler and one spelling it in
\* uppercase is with the catch-all handler now.
C26_Witness ==
    /\ UpperTriggers # {}
    /\ DOMAIN command_handlers = UpperTriggers
    /\ pc = "in_msg"
    /\ idx = 2
    /\ Message(batch[1]).command = Cmd
    /\ HandlerCalls(1) # <<>>
    /\ SplitOnce(Message(batch[2]).text)[1] = CmdUpper

(***************************************************************************)
(* C24.  No message is lost to the cursor: with a transport that returns   *)
(* exactly the items after `after` in ascending order, every message of a  *)
(* fetched batch for which no handler invocation has been started has a    *)
(* timestamp strictly greater than the cursor.  Stated between iterations  *)
(* of the while loop, where no payload is half taken up, and for           *)
(* registries with a catch-all handler, where every message has a handler  *)
(* to go to.                                                               *)
(***************************************************************************)
C24_NoMessageLostToCursor ==
    (/\ conforming
     /\ interrupts = 0
     /\ pc \in {"fetch", "sleep"}
     /\ message_handlers # <<>>) =>
        \A p \in 1..Len(batch) :
            HandlerCalls(p) = <<>> => batch[p].timestamp > last_ts

(***************************************************************************)
(* C25.  The backlog is skipped: nothing is dispatched during SYNCING;     *)
(* and in the runs where every answer, in whatever order it lists them,    *)
(* has only items after the `after` of its fetch, no message the sync      *)
(* fetch returned is passed to a command or catch-all handler and every    *)
(* dispatched message has a timestamp strictly greater than the cursor     *)
(* value SYNCING set.  The claim makes its first statement for every       *)
(* transport; these runs are among them.                                   *)
(***************************************************************************)
\* The payloads that have been handed to a command or catch-all handler.
Dispatched == {d \in Payloads : d.id \in delivered}

C25_BacklogSkipped ==
    /\ pc \in {"sync", "startup"} =>
           /\ delivered = {}
           /\ \A i \in 1..Len(calls) : calls[i].kind = "event"
    /\ OnlyAfterSoFar =>
           /\ delivered \cap backlog.ids = {}
           /\ \A d \in Dispatched : d.timestamp > backlog.cursor

====
